---- MODULE Spec2Model ----
(***************************************************************************)
(* TCP calculator server (tcp_server.cpp) and validator client             *)
(* (tcp_client.cpp): the expression evaluators, the space-delimited frame  *)
(* codec and the two epoll reactor loops.                                  *)
(*                                                                         *)
(* A std::string is a sequence of one-character strings.                   *)
(***************************************************************************)
EXTENDS Integers, Sequences, FiniteSets, TLC

\* ------------------------------------------------------------------------
\* Bounds of the model
\* ------------------------------------------------------------------------

\* longest arbitrary payload handed to the evaluators
MaxLen == 4

\* most operands of a well-formed expression handed to the evaluators
MaxOperands == 3

\* most operands of an expression the client generates
MaxGenOperands == 2

\* most request frames a remote program sends on one connection
MaxFrames == 2

\* most bytes a remote program hands to the network in one send
MaxRun == 8

\* ------------------------------------------------------------------------
\* Characters
\* ------------------------------------------------------------------------

SEP == " "

DigitChars == <<"0", "1", "2", "3", "4", "5", "6", "7", "8", "9">>

OpChars == <<"+", "-", "*", "/">>

\* std::isdigit
IsDigit(ch) == \E k \in 1..10 : DigitChars[k] = ch

\* std::isspace in the "C" locale
IsSpace(ch) == ch \in {" ", "\t", "\n", "\r", "\f"}

\* s[i] - '0'
DigitVal(ch) == (CHOOSE k \in 1..10 : DigitChars[k] = ch) - 1

IsOp(ch) == \E k \in 1..4 : OpChars[k] = ch

\* C++ integer division: the quotient truncated toward zero (b # 0)
CDiv(a, b) ==
    LET q == (IF a < 0 THEN -a ELSE a) \div (IF b < 0 THEN -b ELSE b)
    IN  IF (a < 0) = (b < 0) THEN q ELSE -q

\* ------------------------------------------------------------------------
\* Evaluator.  A result is [st, val]: st = "ok" (val returned), "throw" (a
\* std::runtime_error left evaluate) or "ub" (top()/pop() of an empty
\* std::stack: undefined behaviour).
\* ------------------------------------------------------------------------

Ok(v) == [st |-> "ok", val |-> v]

Throw == [st |-> "throw", val |-> 0]

UB == [st |-> "ub", val |-> 0]

\* mutant: every operator binds alike
precedence_flat(op) == IF op \in {"+", "-", "*", "/"} THEN 1 ELSE 0

precedence(op) ==
    IF op = "+" \/ op = "-" THEN 1
    ELSE IF op = "*" \/ op = "/" THEN 2
    ELSE 0

\* mutant: the server divides by zero as the client does
server_apply_op_lenient(a, b, op) ==
    CASE op = "+" -> Ok(a + b)
      [] op = "-" -> Ok(a - b)
      [] op = "*" -> Ok(a * b)
      [] op = "/" -> IF b = 0 THEN Ok(0) ELSE Ok(CDiv(a, b))
      [] OTHER    -> Throw

\* server apply_op: division by zero and an unknown operator throw
server_apply_op(a, b, op) ==
    CASE op = "+" -> Ok(a + b)
      [] op = "-" -> Ok(a - b)
      [] op = "*" -> Ok(a * b)
      [] op = "/" -> IF b = 0 THEN Throw ELSE Ok(CDiv(a, b))
      [] OTHER    -> Throw

\* client apply_op: division by zero yields 0, an unknown operator throws
client_apply_op(a, b, op) ==
    CASE op = "+" -> Ok(a + b)
      [] op = "-" -> Ok(a - b)
      [] op = "*" -> Ok(a * b)
      [] op = "/" -> IF b = 0 THEN Ok(0) ELSE Ok(CDiv(a, b))
      [] OTHER    -> Throw

\* The scanner's state: [st, values, ops]; the stacks grow at the tail.
\* st = "run" while evaluate is executing.
Running(values, ops) == [st |-> "run", values |-> values, ops |-> ops]

Stopped(st) == [st |-> st, values |-> <<>>, ops |-> <<>>]

\* One body of a reduction loop (server lines 71-74, 82-85): b and a are read
\* and popped before apply_op is called.
server_reduce(values, ops) ==
    IF Len(values) < 2 THEN Stopped("ub")
    ELSE LET b == values[Len(values)]
             a == values[Len(values) - 1]
             r == server_apply_op(a, b, ops[Len(ops)])
         IN  IF r.st = "ok"
             THEN Running(Append(SubSeq(values, 1, Len(values) - 2), r.val),
                          SubSeq(ops, 1, Len(ops) - 1))
             ELSE Stopped(r.st)

client_reduce(values, ops) ==
    IF Len(values) < 2 THEN Stopped("ub")
    ELSE LET b == values[Len(values)]
             a == values[Len(values) - 1]
             r == client_apply_op(a, b, ops[Len(ops)])
         IN  IF r.st = "ok"
             THEN Running(Append(SubSeq(values, 1, Len(values) - 2), r.val),
                          SubSeq(ops, 1, Len(ops) - 1))
             ELSE Stopped(r.st)

\* while (!ops.empty() && precedence(ops.top()) >= precedence(op)) { ... }
RECURSIVE server_reduce_while(_, _, _)
server_reduce_while(values, ops, op) ==
    IF ops # <<>> /\ precedence(ops[Len(ops)]) >= precedence(op)
    THEN LET m == server_reduce(values, ops)
         IN  IF m.st = "run" THEN server_reduce_while(m.values, m.ops, op) ELSE m
    ELSE Running(values, ops)

RECURSIVE client_reduce_while(_, _, _)
client_reduce_while(values, ops, op) ==
    IF ops # <<>> /\ precedence(ops[Len(ops)]) >= precedence(op)
    THEN LET m == client_reduce(values, ops)
         IN  IF m.st = "run" THEN client_reduce_while(m.values, m.ops, op) ELSE m
    ELSE Running(values, ops)

\* while (!ops.empty()) { ... }
RECURSIVE server_reduce_all(_, _)
server_reduce_all(values, ops) ==
    IF ops # <<>>
    THEN LET m == server_reduce(values, ops)
         IN  IF m.st = "run" THEN server_reduce_all(m.values, m.ops) ELSE m
    ELSE Running(values, ops)

RECURSIVE client_reduce_all(_, _)
client_reduce_all(values, ops) ==
    IF ops # <<>>
    THEN LET m == client_reduce(values, ops)
         IN  IF m.st = "run" THEN client_reduce_all(m.values, m.ops) ELSE m
    ELSE Running(values, ops)

\* the digit run starting at s[i]: [val, next] (lines 60-63)
RECURSIVE read_number(_, _, _)
read_number(s, i, val) ==
    IF i <= Len(s) /\ IsDigit(s[i])
    THEN read_number(s, i + 1, val * 10 + DigitVal(s[i]))
    ELSE [val |-> val, next |-> i]

\* the for loop of evaluate from position i (1-based)
RECURSIVE server_scan(_, _, _, _)
server_scan(s, i, values, ops) ==
    IF i > Len(s) THEN Running(values, ops)
    ELSE IF IsSpace(s[i]) THEN server_scan(s, i + 1, values, ops)
    ELSE IF IsDigit(s[i])
         THEN LET n == read_number(s, i, 0)
              IN  server_scan(s, n.next, Append(values, n.val), ops)
    ELSE LET m == server_reduce_while(values, ops, s[i])
         IN  IF m.st = "run"
             THEN server_scan(s, i + 1, m.values, Append(m.ops, s[i]))
             ELSE m

RECURSIVE client_scan(_, _, _, _)
client_scan(s, i, values, ops) ==
    IF i > Len(s) THEN Running(values, ops)
    ELSE IF IsSpace(s[i]) THEN client_scan(s, i + 1, values, ops)
    ELSE IF IsDigit(s[i])
         THEN LET n == read_number(s, i, 0)
              IN  client_scan(s, n.next, Append(values, n.val), ops)
    ELSE LET m == client_reduce_while(values, ops, s[i])
         IN  IF m.st = "run"
             THEN client_scan(s, i + 1, m.values, Append(m.ops, s[i]))
             ELSE m

\* long evaluate(const std::string& s) of the server
server_evaluate(s) ==
    LET m == server_scan(s, 1, <<>>, <<>>)
    IN  IF m.st # "run" THEN [st |-> m.st, val |-> 0]
        ELSE LET f == server_reduce_all(m.values, m.ops)
             IN  IF f.st # "run" THEN [st |-> f.st, val |-> 0]
                 ELSE IF f.values = <<>> THEN Throw
                 ELSE Ok(f.values[Len(f.values)])

\* long evaluate(const std::string& s) of the client
client_evaluate(s) ==
    LET m == client_scan(s, 1, <<>>, <<>>)
    IN  IF m.st # "run" THEN [st |-> m.st, val |-> 0]
        ELSE LET f == client_reduce_all(m.values, m.ops)
             IN  IF f.st # "run" THEN [st |-> f.st, val |-> 0]
                 ELSE IF f.values = <<>> THEN Throw
                 ELSE Ok(f.values[Len(f.values)])

\* std::to_string(long)
RECURSIVE decimal_digits(_)
decimal_digits(n) ==
    IF n < 10 THEN <<DigitChars[n + 1]>>
    ELSE decimal_digits(n \div 10) \o <<DigitChars[(n % 10) + 1]>>

to_string(v) == IF v < 0 THEN <<"-">> \o decimal_digits(-v) ELSE decimal_digits(v)

\* std::stol(str): leading whitespace is skipped, then an optional sign, then
\* the longest digit run; no digit at all throws std::invalid_argument.
RECURSIVE skip_space(_, _)
skip_space(s, i) == IF i <= Len(s) /\ IsSpace(s[i]) THEN skip_space(s, i + 1) ELSE i

stol(s) ==
    LET i == skip_space(s, 1)
        signed == i <= Len(s) /\ s[i] \in {"+", "-"}
        j == IF signed THEN i + 1 ELSE i
        n == read_number(s, j, 0)
    IN  IF n.next = j THEN Throw
        ELSE IF signed /\ s[i] = "-" THEN Ok(-n.val) ELSE Ok(n.val)

\* ------------------------------------------------------------------------
\* Frames and the server's session driver (tcp_server.cpp lines 194-202)
\* ------------------------------------------------------------------------

ERR == <<"E", "R", "R">>

\* values a read of an empty std::stack may yield
UBValues == {0, 7}

\* The outcomes of evaluating expr inside the try block: the reply frame
\* appended to out_buf, or the process dying.  Undefined behaviour in
\* evaluate may crash the process, throw, or return an arbitrary value.
Reply(frame) == [crash |-> FALSE, frame |-> frame]

Crash == [crash |-> TRUE, frame |-> <<>>]

session_reply(expr) ==
    LET r == server_evaluate(expr)
    IN  CASE r.st = "ok"    -> {Reply(Append(to_string(r.val), SEP))}
          [] r.st = "throw" -> {Reply(Append(ERR, SEP))}
          [] OTHER          -> {Crash, Reply(Append(ERR, SEP))}
                               \cup {Reply(Append(to_string(g), SEP)) : g \in UBValues}

\* ------------------------------------------------------------------------
\* Expressions
\* ------------------------------------------------------------------------

\* the sequences of seqs joined in order
RECURSIVE Concat(_)
Concat(seqs) == IF seqs = <<>> THEN <<>> ELSE Head(seqs) \o Concat(Tail(seqs))

\* all strings over alphabet of length exactly n
RECURSIVE StringsOfLen(_, _)
StringsOfLen(alphabet, n) ==
    IF n = 0 THEN {<<>>}
    ELSE {Append(s, ch) : s \in StringsOfLen(alphabet, n - 1), ch \in alphabet}

\* digits (op digits)* with n operands, each the decimal text of a member of nums
RECURSIVE ExprsOf(_, _)
ExprsOf(n, nums) ==
    IF n = 1 THEN {to_string(v) : v \in nums}
    ELSE {e \o <<OpChars[k]>> \o to_string(v) :
              e \in ExprsOf(n - 1, nums), k \in 1..4, v \in nums}

\* s matches digits (op digits)*
WellFormed(s) ==
    /\ s # <<>>
    /\ IsDigit(s[1]) /\ IsDigit(s[Len(s)])
    /\ \A i \in 1..Len(s) : IsDigit(s[i]) \/ IsOp(s[i])
    /\ \A i \in 1..(Len(s) - 1) : ~(IsOp(s[i]) /\ IsOp(s[i + 1]))

\* some division of the well-formed s has a divisor of value 0
DividesByZero(s) ==
    \E i \in 1..(Len(s) - 1) : s[i] = "/" /\ read_number(s, i + 1, 0).val = 0

\* the payloads handed to the evaluators
EvalAlphabet == {"0", "3", "+", "-", "*", "/", "a", "\t"}

EvalOperands == {0, 2, 3, 8, 10}

\* the expressions the specification works through
EvalExamples ==
    { <<"2", "+", "3", "*", "4">>,
      <<"1", "0", "-", "2", "*", "3", "+", "4">>,
      <<"8", "/", "3">>,
      <<"5", "/", "0">> }

EvalInputs ==
    UNION {StringsOfLen(EvalAlphabet, n) : n \in 0..MaxLen}
    \cup EvalExamples
    \cup UNION {ExprsOf(n, EvalOperands) : n \in 1..MaxOperands}

\* ------------------------------------------------------------------------
\* State
\* ------------------------------------------------------------------------

\* the connections; a client socket and the server socket accepted for it
\* carry the same number
Fds == {1, 2}

VARIABLES
    ev_in,          \* the payload under evaluation
    ev_srv,         \* what the server's evaluate did with it
    ev_cli,         \* what the client's evaluate did with it
    ev_reply,       \* the outcome of the server's session driver for it
    \* --- server process
    s_conns,        \* keys of the server's conns table
    s_in_buf,       \* Connection::in_buf per key
    s_out_buf,      \* Connection::out_buf per key
    s_interest,     \* events the server's epoll watches per socket
    s_crashed,      \* the server process died
    s_log,          \* the "Expr: ... -> ..." lines the server printed per socket
    s_data_reads,   \* readable events per socket that appended bytes to in_buf
    s_empty_read,   \* some readable event of the socket appended no byte
    \* --- client process
    c_conns,        \* keys of the client's conns table
    c_expr,         \* Connection::expr
    c_fragments,    \* Connection::fragments
    c_frag_idx,     \* Connection::frag_idx
    c_frag_offset,  \* Connection::frag_offset
    c_in_buf,       \* Connection::in_buf
    c_expected,     \* Connection::expected
    c_interest,     \* events the client's epoll watches per socket
    active,         \* the client's count of live connections
    c_outcome,      \* what the client reported per connection
    c_aborted,      \* an exception left the client's main
    \* --- kernel and network
    link,           \* "init" (connecting), "up" or "reset" per connection
    backlog,        \* established connections the server has not accepted yet
    c2s,            \* bytes sent by the client, not yet read by the server
    s2c,            \* bytes sent by the server, not yet read by the client
    c_shut,         \* the client's end is closed
    s_shut,         \* the server's end is closed
    s_ready,        \* events queued for the server's epoll_wait per socket
    c_ready,        \* events queued for the client's epoll_wait per socket
    s_full,         \* the server socket's send buffer takes no byte
    c_full,         \* the client socket's send buffer takes no byte
    \* --- the remote program of a specification with one endpoint only
    p_stream,       \* the bytes that program sends on a connection
    p_sent          \* how many of them it has sent

evalVars == <<ev_in, ev_srv, ev_cli, ev_reply>>

srvVars == <<s_conns, s_in_buf, s_out_buf, s_interest, s_crashed,
             s_log, s_data_reads, s_empty_read>>

peerVars == <<p_stream, p_sent>>

cliVars == <<c_conns, c_expr, c_fragments, c_frag_idx, c_frag_offset, c_in_buf,
             c_expected, c_interest, active, c_outcome, c_aborted>>

netVars == <<link, backlog, c2s, s2c, c_shut, s_shut, s_ready, c_ready, s_full, c_full>>

vars == <<evalVars, srvVars, cliVars, netVars, peerVars>>

NotRun == [st |-> "none", val |-> 0]

EPOLLIN == "IN"

EPOLLOUT == "OUT"

\* no payload is under evaluation
EvalIdle ==
    /\ ev_in = <<>>
    /\ ev_srv = NotRun
    /\ ev_cli = NotRun
    /\ ev_reply = Reply(<<>>)

\* the server after listen(), before any connection
ServerStarted ==
    /\ s_conns = {}
    /\ s_in_buf = [fd \in Fds |-> <<>>]
    /\ s_out_buf = [fd \in Fds |-> <<>>]
    /\ s_interest = [fd \in Fds |-> {}]
    /\ s_crashed = FALSE
    /\ s_log = [fd \in Fds |-> <<>>]
    /\ s_data_reads = [fd \in Fds |-> 0]
    /\ s_empty_read = [fd \in Fds |-> FALSE]

\* no remote program
PeerIdle ==
    /\ p_stream = [fd \in Fds |-> <<>>]
    /\ p_sent = [fd \in Fds |-> 0]

\* no client process
ClientAbsent ==
    /\ c_conns = {}
    /\ c_expr = [fd \in Fds |-> <<>>]
    /\ c_fragments = [fd \in Fds |-> <<>>]
    /\ c_frag_idx = [fd \in Fds |-> 0]
    /\ c_frag_offset = [fd \in Fds |-> 0]
    /\ c_in_buf = [fd \in Fds |-> <<>>]
    /\ c_expected = [fd \in Fds |-> 0]
    /\ c_interest = [fd \in Fds |-> {}]
    /\ active = 0
    /\ c_outcome = [fd \in Fds |-> "none"]
    /\ c_aborted = FALSE

\* no connection exists yet
NetIdle ==
    /\ link = [fd \in Fds |-> "init"]
    /\ backlog = {}
    /\ c2s = [fd \in Fds |-> <<>>]
    /\ s2c = [fd \in Fds |-> <<>>]
    /\ c_shut = [fd \in Fds |-> FALSE]
    /\ s_shut = [fd \in Fds |-> FALSE]
    /\ s_ready = [fd \in Fds |-> {}]
    /\ c_ready = [fd \in Fds |-> {}]
    /\ s_full = [fd \in Fds |-> FALSE]
    /\ c_full = [fd \in Fds |-> TRUE]

\* ------------------------------------------------------------------------
\* The evaluators as a specification of their own
\* ------------------------------------------------------------------------

InitEval ==
    /\ ev_in \in EvalInputs
    /\ ev_srv = NotRun
    /\ ev_cli = NotRun
    /\ ev_reply = Reply(<<>>)
    /\ ServerStarted /\ ClientAbsent /\ NetIdle /\ PeerIdle

\* both evaluators and the session driver applied to the payload
Evaluate ==
    /\ ev_srv = NotRun
    /\ ev_srv' = server_evaluate(ev_in)
    /\ ev_cli' = client_evaluate(ev_in)
    /\ ev_reply' \in session_reply(ev_in)
    /\ UNCHANGED <<ev_in, srvVars, cliVars, netVars, peerVars>>

NextEval == Evaluate

SpecEval == InitEval /\ [][NextEval]_vars

\* ------------------------------------------------------------------------
\* Server reactor (tcp_server.cpp main)
\* ------------------------------------------------------------------------

\* in_buf.find(' '): the 1-based place of the first separator, 0 for npos
find_sep(buf) ==
    IF \E i \in 1..Len(buf) : buf[i] = SEP
    THEN CHOOSE i \in 1..Len(buf) : buf[i] = SEP /\ \A j \in 1..(i - 1) : buf[j] # SEP
    ELSE 0

\* The read loop (lines 173-187) on socket fd: the bytes appended to in_buf
\* and how the loop ended: "again" (EAGAIN), "eof" (read returned 0) or "err".
server_read(fd) ==
    IF link[fd] = "reset" THEN [data |-> <<>>, end |-> "err"]
    ELSE [data |-> c2s[fd], end |-> IF c_shut[fd] THEN "eof" ELSE "again"]

\* mutant: the bytes read replace the buffer
append_read_assign(in_buf, data) == data

\* c.in_buf.append(buf, count)
append_read(in_buf, data) == in_buf \o data

\* mutant: an if for the while, one frame per readable event
server_frames_once(in_buf, out_buf, log) ==
    LET pos == find_sep(in_buf)
    IN  IF pos = 0
        THEN {[in_buf |-> in_buf, out_buf |-> out_buf, log |-> log, crash |-> FALSE]}
        ELSE LET expr == SubSeq(in_buf, 1, pos - 1)
                 rest == SubSeq(in_buf, pos + 1, Len(in_buf))
             IN  { IF r.crash
                   THEN [in_buf |-> rest, out_buf |-> out_buf, log |-> log, crash |-> TRUE]
                   ELSE [in_buf |-> rest, out_buf |-> out_buf \o r.frame,
                         log |-> Append(log, [expr |-> expr, reply |-> r.frame]),
                         crash |-> FALSE]
                   : r \in session_reply(expr) }

\* mutant: the loop is left after an ERR reply
RECURSIVE server_frames_stop_on_err(_, _, _)
server_frames_stop_on_err(in_buf, out_buf, log) ==
    LET pos == find_sep(in_buf)
    IN  IF pos = 0
        THEN {[in_buf |-> in_buf, out_buf |-> out_buf, log |-> log, crash |-> FALSE]}
        ELSE LET expr == SubSeq(in_buf, 1, pos - 1)
                 rest == SubSeq(in_buf, pos + 1, Len(in_buf))
             IN  UNION { IF r.crash
                         THEN {[in_buf |-> rest, out_buf |-> out_buf,
                                log |-> log, crash |-> TRUE]}
                         ELSE IF r.frame = Append(ERR, SEP)
                         THEN {[in_buf |-> rest, out_buf |-> out_buf \o r.frame,
                                log |-> Append(log, [expr |-> expr, reply |-> r.frame]),
                                crash |-> FALSE]}
                         ELSE server_frames_stop_on_err(rest, out_buf \o r.frame,
                                  Append(log, [expr |-> expr, reply |-> r.frame]))
                         : r \in session_reply(expr) }

\* The frame loop (lines 189-210) from buffers in_buf and out_buf: every way it
\* can end, [in_buf, out_buf, log, crash]; log holds the lines printed, one
\* [expr, reply] per frame replied to.
RECURSIVE server_frames(_, _, _)
server_frames(in_buf, out_buf, log) ==
    LET pos == find_sep(in_buf)
    IN  IF pos = 0
        THEN {[in_buf |-> in_buf, out_buf |-> out_buf, log |-> log, crash |-> FALSE]}
        ELSE LET expr == SubSeq(in_buf, 1, pos - 1)
                 rest == SubSeq(in_buf, pos + 1, Len(in_buf))
             IN  UNION { IF r.crash
                         THEN {[in_buf |-> rest, out_buf |-> out_buf,
                                log |-> log, crash |-> TRUE]}
                         ELSE server_frames(rest, out_buf \o r.frame,
                                            Append(log, [expr |-> expr, reply |-> r.frame]))
                         : r \in session_reply(expr) }

\* The write loop (lines 215-228) on socket fd with out_buf = buf: the number
\* of bytes the socket took and how the loop ended: "done" (out_buf empty),
\* "again" (EAGAIN) or "err".
server_write(fd, buf) ==
    IF buf = <<>> THEN {[n |-> 0, end |-> "done"]}
    ELSE IF link[fd] = "reset" THEN {[n |-> 0, end |-> "err"]}
    ELSE IF s_full[fd] THEN {[n |-> 0, end |-> "again"]}
    ELSE {[n |-> n, end |-> IF n = Len(buf) THEN "done" ELSE "again"] : n \in 1..Len(buf)}

\* mutant: epoll_ctl queues nothing for a socket that is already ready
epoll_arm_no_edge(interest, readable, writable) == {}

\* the events epoll queues for a socket right after epoll_ctl ADD or MOD
epoll_arm(interest, readable, writable) ==
    (IF EPOLLIN \in interest /\ readable THEN {EPOLLIN} ELSE {})
    \cup (IF EPOLLOUT \in interest /\ writable THEN {EPOLLOUT} ELSE {})

\* the client's epoll learns that socket fd became readable
WakeClient(fd) ==
    c_ready' = [c_ready EXCEPT ![fd] = IF EPOLLIN \in c_interest[fd]
                                         THEN @ \cup {EPOLLIN} ELSE @]

\* lines 147-166: the listening socket is readable; accept until EAGAIN
ServerAccept ==
    /\ ~s_crashed
    /\ backlog # {}
    /\ s_conns' = s_conns \cup backlog
    /\ s_in_buf' = [fd \in Fds |-> IF fd \in backlog THEN <<>> ELSE s_in_buf[fd]]
    /\ s_out_buf' = [fd \in Fds |-> IF fd \in backlog THEN <<>> ELSE s_out_buf[fd]]
    /\ s_interest' = [fd \in Fds |-> IF fd \in backlog THEN {EPOLLIN} ELSE s_interest[fd]]
    /\ s_ready' = [fd \in Fds |->
                     IF fd \in backlog
                     THEN epoll_arm({EPOLLIN},
                                    c2s[fd] # <<>> \/ c_shut[fd] \/ link[fd] = "reset", FALSE)
                     ELSE s_ready[fd]]
    /\ backlog' = {}
    /\ s_log' = [fd \in Fds |-> IF fd \in backlog THEN <<>> ELSE s_log[fd]]
    /\ s_data_reads' = [fd \in Fds |-> IF fd \in backlog THEN 0 ELSE s_data_reads[fd]]
    /\ s_empty_read' = [fd \in Fds |-> IF fd \in backlog THEN FALSE ELSE s_empty_read[fd]]
    /\ UNCHANGED <<evalVars, cliVars, s_crashed, link, c2s, s2c, c_shut, s_shut,
                   c_ready, s_full, c_full, peerVars>>

\* mutant: close(fd) without conns.erase(fd)
ServerClose_no_erase(fd) ==
    /\ s_conns' = s_conns
    /\ s_in_buf' = [s_in_buf EXCEPT ![fd] = <<>>]
    /\ s_out_buf' = [s_out_buf EXCEPT ![fd] = <<>>]
    /\ s_interest' = [s_interest EXCEPT ![fd] = {}]
    /\ s_ready' = [s_ready EXCEPT ![fd] = {}]
    /\ s_shut' = [s_shut EXCEPT ![fd] = TRUE]
    /\ WakeClient(fd)
    /\ UNCHANGED <<s_crashed, s_full, s_log, s_data_reads, s_empty_read>>

\* close(fd); conns.erase(fd); goto next_event
ServerClose(fd) ==
    /\ s_conns' = s_conns \ {fd}
    /\ s_in_buf' = [s_in_buf EXCEPT ![fd] = <<>>]
    /\ s_out_buf' = [s_out_buf EXCEPT ![fd] = <<>>]
    /\ s_interest' = [s_interest EXCEPT ![fd] = {}]
    /\ s_ready' = [s_ready EXCEPT ![fd] = {}]
    /\ s_shut' = [s_shut EXCEPT ![fd] = TRUE]
    /\ WakeClient(fd)
    /\ UNCHANGED <<s_crashed, s_full, s_log, s_data_reads, s_empty_read>>

\* undefined behaviour killed the process: the kernel closes every socket
ServerDies ==
    /\ s_crashed' = TRUE
    /\ s_conns' = {}
    /\ s_in_buf' = [fd \in Fds |-> <<>>]
    /\ s_out_buf' = [fd \in Fds |-> <<>>]
    /\ s_interest' = [fd \in Fds |-> {}]
    /\ s_ready' = [fd \in Fds |-> {}]
    /\ s_shut' = [fd \in Fds |-> s_shut[fd] \/ fd \in s_conns \/ fd \in backlog]
    /\ c_ready' = [fd \in Fds |-> IF (fd \in s_conns \/ fd \in backlog)
                                     /\ EPOLLIN \in c_interest[fd]
                                  THEN c_ready[fd] \cup {EPOLLIN} ELSE c_ready[fd]]
    /\ UNCHANGED <<s_full, s_log, s_data_reads, s_empty_read>>

\* lines 205-209: EPOLL_CTL_MOD to EPOLLIN | EPOLLOUT once per reply queued
server_enable_out(interest, queued) ==
    IF queued THEN {EPOLLIN, EPOLLOUT} ELSE interest

\* mutant: writability stays watched after out_buf is written out
server_disable_out_never(interest, evs, left) == interest

\* lines 229-235: EPOLL_CTL_MOD to EPOLLIN at the end of a writable event that
\* left out_buf empty
server_disable_out(interest, evs, left) ==
    IF EPOLLOUT \in evs /\ left = <<>> THEN {EPOLLIN} ELSE interest

\* lines 167-237: one event of a connection socket, evs its event mask.
\* Line 168 is conns[fd]: operator[] inserts an empty Connection for a key that
\* is not in the table, whatever handle the event names.
ServerEvent(fd, evs) ==
    /\ ~s_crashed
    /\ s_ready[fd] # {}
    /\ s_ready[fd] \subseteq evs
    /\ evs \subseteq s_interest[fd]
    /\ LET rd == server_read(fd)
           readable == EPOLLIN \in evs
       IN  /\ c2s' = IF readable THEN [c2s EXCEPT ![fd] = <<>>] ELSE c2s
           /\ IF readable /\ rd.end # "again"
              THEN ServerClose(fd) /\ UNCHANGED s2c
              ELSE \E fr \in (IF readable
                              THEN server_frames(append_read(s_in_buf[fd], rd.data),
                                                 s_out_buf[fd], <<>>)
                              ELSE {[in_buf |-> s_in_buf[fd], out_buf |-> s_out_buf[fd],
                                     log |-> <<>>, crash |-> FALSE]}) :
                   IF fr.crash
                   THEN ServerDies /\ UNCHANGED s2c
                   ELSE \E wr \in (IF EPOLLOUT \in evs
                                   THEN server_write(fd, fr.out_buf)
                                   ELSE {[n |-> 0, end |-> "skip"]}) :
                        IF wr.end = "err"
                        THEN ServerClose(fd) /\ UNCHANGED s2c
                        ELSE LET left == SubSeq(fr.out_buf, wr.n + 1, Len(fr.out_buf))
                                 full == s_full[fd] \/ wr.end = "again"
                                 \* lines 206-209, then lines 230-235
                                 enabled == server_enable_out(s_interest[fd], fr.log # <<>>)
                                 interest == server_disable_out(enabled, evs, left)
                                 rearmed == fr.log # <<>>
                                            \/ (EPOLLOUT \in evs /\ left = <<>>)
                             IN  /\ s_in_buf' = [s_in_buf EXCEPT ![fd] = fr.in_buf]
                                 /\ s_out_buf' = [s_out_buf EXCEPT ![fd] = left]
                                 /\ s2c' = [s2c EXCEPT ![fd] =
                                              @ \o SubSeq(fr.out_buf, 1, wr.n)]
                                 /\ s_interest' = [s_interest EXCEPT ![fd] = interest]
                                 /\ s_full' = [s_full EXCEPT ![fd] = full]
                                 /\ s_ready' = [s_ready EXCEPT ![fd] =
                                        IF rearmed
                                        THEN epoll_arm(interest, FALSE, ~full)
                                        ELSE {}]
                                 /\ c_ready' = [c_ready EXCEPT ![fd] =
                                        IF wr.n > 0 /\ EPOLLIN \in c_interest[fd]
                                        THEN @ \cup {EPOLLIN} ELSE @]
                                 /\ s_log' = [s_log EXCEPT ![fd] = @ \o fr.log]
                                 /\ s_data_reads' = [s_data_reads EXCEPT ![fd] =
                                        IF readable /\ rd.data # <<>> THEN @ + 1 ELSE @]
                                 /\ s_empty_read' = [s_empty_read EXCEPT ![fd] =
                                        @ \/ (readable /\ rd.data = <<>>)]
                                 /\ s_conns' = s_conns \cup {fd}
                                 /\ UNCHANGED <<s_crashed, s_shut>>
    /\ UNCHANGED <<evalVars, cliVars, link, backlog, c_shut, c_full, peerVars>>

\* ------------------------------------------------------------------------
\* Client (tcp_client.cpp main)
\* ------------------------------------------------------------------------

Min(a, b) == IF a < b THEN a ELSE b

\* the numbers dist_num draws from in the model
GenOperands == {2, 10}

\* build_expression(n, rng)
build_expression(n) == ExprsOf(n, GenOperands)

\* mutant: the loop stops one byte early
RECURSIVE fragmentations_short(_, _)
fragmentations_short(msg, pos) ==
    IF ~(pos < Len(msg) - 1) THEN {<<>>}
    ELSE LET max_len == Len(msg) - 1 - pos
         IN  UNION { {<<SubSeq(msg, pos + 1, pos + len)>> \o rest :
                        rest \in fragmentations_short(msg, pos + len)}
                     : len \in 1..max_len }

\* lines 151-157: every list of chunks the fragmentation loop can build from
\* position pos of msg, each length drawn from 1..(msg.size() - pos)
RECURSIVE fragmentations(_, _)
fragmentations(msg, pos) ==
    IF ~(pos < Len(msg)) THEN {<<>>}
    ELSE LET max_len == Len(msg) - pos
         IN  UNION { {<<SubSeq(msg, pos + 1, pos + len)>> \o rest :
                        rest \in fragmentations(msg, pos + len)}
                     : len \in 1..max_len }

\* lines 140-178: the client started with arguments n and connections, after
\* its connections are initiated; the sockets are numbered 1..connections
ClientStarted(n, connections) ==
    LET fds == 1..connections
        exprs == build_expression(n)
        frags(fd, e) == IF fd \in fds THEN fragmentations(Append(e, SEP), 0) ELSE {<<>>}
    IN  /\ c_conns = fds
        /\ \E e1 \in exprs, e2 \in (IF 2 \in fds THEN exprs ELSE {<<>>}) :
             \E f1 \in frags(1, e1), f2 \in frags(2, e2) :
                /\ c_expr = [fd \in Fds |-> IF fd = 1 THEN e1 ELSE e2]
                /\ c_fragments = [fd \in Fds |-> IF fd = 1 THEN f1 ELSE f2]
        /\ c_expected = [fd \in Fds |->
                            IF fd \in fds THEN client_evaluate(c_expr[fd]).val ELSE 0]
        /\ c_frag_idx = [fd \in Fds |-> 0]
        /\ c_frag_offset = [fd \in Fds |-> 0]
        /\ c_in_buf = [fd \in Fds |-> <<>>]
        /\ c_interest = [fd \in Fds |-> IF fd \in fds THEN {EPOLLIN, EPOLLOUT} ELSE {}]
        /\ active = Cardinality(fds)
        /\ c_outcome = [fd \in Fds |-> "none"]
        /\ c_aborted = FALSE

\* mutant: a fragment cut short by the socket is sent again from its start
RECURSIVE client_send_loop_restart(_, _, _, _, _)
client_send_loop_restart(fragments, frag_idx, frag_offset, budget, bytes) ==
    IF ~(frag_idx < Len(fragments)) \/ budget = 0
    THEN [frag_idx |-> frag_idx, frag_offset |-> frag_offset, bytes |-> bytes]
    ELSE LET frag == fragments[frag_idx + 1]
             sent == Min(Len(frag), budget)
             data == SubSeq(frag, 1, sent)
         IN  IF sent = Len(frag)
             THEN client_send_loop_restart(fragments, frag_idx + 1, 0,
                                           budget - sent, bytes \o data)
             ELSE client_send_loop_restart(fragments, frag_idx, 0,
                                           budget - sent, bytes \o data)

\* mutant: a would-block result rewinds the cursor to the first fragment
RECURSIVE client_send_loop_rewind(_, _, _, _, _)
client_send_loop_rewind(fragments, frag_idx, frag_offset, budget, bytes) ==
    IF ~(frag_idx < Len(fragments))
    THEN [frag_idx |-> frag_idx, frag_offset |-> frag_offset, bytes |-> bytes]
    ELSE IF budget = 0
    THEN [frag_idx |-> 0, frag_offset |-> 0, bytes |-> bytes]
    ELSE LET frag == fragments[frag_idx + 1]
             sent == Min(Len(frag) - frag_offset, budget)
             data == SubSeq(frag, frag_offset + 1, frag_offset + sent)
             offset == frag_offset + sent
         IN  IF offset = Len(frag)
             THEN client_send_loop_rewind(fragments, frag_idx + 1, 0,
                                          budget - sent, bytes \o data)
             ELSE client_send_loop_rewind(fragments, frag_idx, offset,
                                          budget - sent, bytes \o data)

\* mutant: any send moves on to the next fragment
RECURSIVE client_send_loop_skip(_, _, _, _, _)
client_send_loop_skip(fragments, frag_idx, frag_offset, budget, bytes) ==
    IF ~(frag_idx < Len(fragments)) \/ budget = 0
    THEN [frag_idx |-> frag_idx, frag_offset |-> frag_offset, bytes |-> bytes]
    ELSE LET frag == fragments[frag_idx + 1]
             sent == Min(Len(frag) - frag_offset, budget)
             data == SubSeq(frag, frag_offset + 1, frag_offset + sent)
         IN  client_send_loop_skip(fragments, frag_idx + 1, 0, budget - sent, bytes \o data)

\* The send loop (lines 194-213) while the socket takes budget more bytes:
\* [frag_idx, frag_offset, bytes], bytes being what the socket took.
\* frag_idx counts from 0 as in the code.
RECURSIVE client_send_loop(_, _, _, _, _)
client_send_loop(fragments, frag_idx, frag_offset, budget, bytes) ==
    IF ~(frag_idx < Len(fragments)) \/ budget = 0
    THEN [frag_idx |-> frag_idx, frag_offset |-> frag_offset, bytes |-> bytes]
    ELSE LET frag == fragments[frag_idx + 1]
             left == Len(frag) - frag_offset
             sent == Min(left, budget)
             data == SubSeq(frag, frag_offset + 1, frag_offset + sent)
             offset == frag_offset + sent
         IN  IF offset = Len(frag)
             THEN client_send_loop(fragments, frag_idx + 1, 0, budget - sent, bytes \o data)
             ELSE client_send_loop(fragments, frag_idx, offset, budget - sent, bytes \o data)

\* bytes of the fragments not yet taken by the socket
unsent(fragments, frag_idx, frag_offset) ==
    Len(Concat(fragments)) -
        (Len(Concat(SubSeq(fragments, 1, frag_idx))) + frag_offset)

\* How the send loop on socket fd can go: the number of bytes the socket takes
\* and how the loop ends: "done" (all fragments sent), "again" or "err".
client_send(fd) ==
    LET todo == unsent(c_fragments[fd], c_frag_idx[fd], c_frag_offset[fd])
    IN  IF link[fd] = "reset" THEN {[n |-> 0, end |-> "err"]}
        ELSE IF c_full[fd] THEN {[n |-> 0, end |-> "again"]}
        ELSE {[n |-> n, end |-> IF n = todo THEN "done" ELSE "again"] : n \in 1..todo}

\* The recv loop (lines 226-236) on socket fd: the bytes appended to in_buf and
\* how the loop ended; the code breaks on "again", "eof" and "err" alike.
client_recv(fd) ==
    IF link[fd] = "reset" THEN [data |-> <<>>, end |-> "err"]
    ELSE [data |-> s2c[fd], end |-> IF s_shut[fd] THEN "eof" ELSE "again"]

\* mutant: active is decremented twice for one erased connection
ClientClose_twice(fd) ==
    /\ c_conns' = c_conns \ {fd}
    /\ active' = active - 2
    /\ c_interest' = [c_interest EXCEPT ![fd] = {}]
    /\ c_ready' = [c_ready EXCEPT ![fd] = {}]
    /\ c_shut' = [c_shut EXCEPT ![fd] = TRUE]
    /\ s_ready' = [s_ready EXCEPT ![fd] = IF EPOLLIN \in s_interest[fd]
                                            THEN @ \cup {EPOLLIN} ELSE @]

\* mutant: the connection is erased and active keeps its value
ClientClose_keep_active(fd) ==
    /\ c_conns' = c_conns \ {fd}
    /\ active' = active
    /\ c_interest' = [c_interest EXCEPT ![fd] = {}]
    /\ c_ready' = [c_ready EXCEPT ![fd] = {}]
    /\ c_shut' = [c_shut EXCEPT ![fd] = TRUE]
    /\ s_ready' = [s_ready EXCEPT ![fd] = IF EPOLLIN \in s_interest[fd]
                                            THEN @ \cup {EPOLLIN} ELSE @]

\* close(fd); conns.erase(it); active--
ClientClose(fd) ==
    /\ c_conns' = c_conns \ {fd}
    /\ active' = active - 1
    /\ c_interest' = [c_interest EXCEPT ![fd] = {}]
    /\ c_ready' = [c_ready EXCEPT ![fd] = {}]
    /\ c_shut' = [c_shut EXCEPT ![fd] = TRUE]
    /\ s_ready' = [s_ready EXCEPT ![fd] = IF EPOLLIN \in s_interest[fd]
                                            THEN @ \cup {EPOLLIN} ELSE @]

\* std::terminate: the kernel closes every socket of the process
ClientDies ==
    /\ c_aborted' = TRUE
    /\ c_ready' = [fd \in Fds |-> {}]
    /\ c_shut' = [fd \in Fds |-> c_shut[fd] \/ fd \in c_conns]
    /\ s_ready' = [fd \in Fds |-> IF fd \in c_conns /\ EPOLLIN \in s_interest[fd]
                                  THEN s_ready[fd] \cup {EPOLLIN} ELSE s_ready[fd]]
    /\ UNCHANGED <<c_conns, active, c_interest>>

\* lines 185-256: one event of socket fd, evs its event mask
ClientEvent(fd, evs) ==
    /\ ~c_aborted
    /\ active > 0
    /\ fd \in c_conns
    /\ c_ready[fd] # {}
    /\ c_ready[fd] \subseteq evs
    /\ evs \subseteq c_interest[fd]
    /\ LET sending == EPOLLOUT \in evs /\ c_frag_idx[fd] < Len(c_fragments[fd])
           receiving == EPOLLIN \in evs
       IN  \E wr \in (IF sending THEN client_send(fd) ELSE {[n |-> 0, end |-> "skip"]}) :
           LET cur == client_send_loop(c_fragments[fd], c_frag_idx[fd],
                                       c_frag_offset[fd], wr.n, <<>>)
               full == c_full[fd] \/ wr.end = "again"
               rd == client_recv(fd)
               in_buf == IF receiving THEN c_in_buf[fd] \o rd.data ELSE c_in_buf[fd]
               pos == IF receiving THEN find_sep(in_buf) ELSE 0
               res == stol(SubSeq(in_buf, 1, pos - 1))
               \* lines 215-220
               interest == IF sending /\ cur.frag_idx = Len(c_fragments[fd])
                           THEN {EPOLLIN} ELSE c_interest[fd]
           IN  /\ c2s' = [c2s EXCEPT ![fd] = @ \o cur.bytes]
               /\ c_full' = [c_full EXCEPT ![fd] = full]
               /\ c_frag_idx' = [c_frag_idx EXCEPT ![fd] = cur.frag_idx]
               /\ c_frag_offset' = [c_frag_offset EXCEPT ![fd] = cur.frag_offset]
               /\ IF wr.end = "err"
                  THEN /\ ClientClose(fd)
                       /\ UNCHANGED <<c_in_buf, s2c, c_outcome, c_aborted>>
                  ELSE /\ c_in_buf' = [c_in_buf EXCEPT ![fd] = in_buf]
                       /\ s2c' = IF receiving THEN [s2c EXCEPT ![fd] = <<>>] ELSE s2c
                       /\ IF pos = 0
                          THEN /\ c_interest' = [c_interest EXCEPT ![fd] = interest]
                               /\ c_ready' = [c_ready EXCEPT ![fd] = {}]
                               /\ s_ready' = [s_ready EXCEPT ![fd] =
                                      IF cur.bytes # <<>> /\ EPOLLIN \in s_interest[fd]
                                      THEN @ \cup {EPOLLIN} ELSE @]
                               /\ UNCHANGED <<c_conns, active, c_shut, c_outcome, c_aborted>>
                          ELSE IF res.st # "ok"
                          THEN ClientDies /\ UNCHANGED c_outcome
                          ELSE /\ c_outcome' = [c_outcome EXCEPT ![fd] =
                                      IF res.val # c_expected[fd]
                                      THEN "mismatch" ELSE "match"]
                               /\ ClientClose(fd)
                               /\ UNCHANGED c_aborted
    /\ UNCHANGED <<evalVars, srvVars, c_expr, c_fragments, c_expected,
                   link, backlog, s_shut, s_full, peerVars>>

\* ------------------------------------------------------------------------
\* Kernel and network
\* ------------------------------------------------------------------------

\* the server's epoll learns that socket fd became readable
WakeServer(fd) ==
    s_ready' = [s_ready EXCEPT ![fd] = IF EPOLLIN \in s_interest[fd]
                                         THEN @ \cup {EPOLLIN} ELSE @]

\* the server socket's send buffer has room again
ServerWritable(fd) ==
    /\ fd \in s_conns
    /\ s_full[fd]
    /\ s_full' = [s_full EXCEPT ![fd] = FALSE]
    /\ s_ready' = [s_ready EXCEPT ![fd] = @ \cup epoll_arm(s_interest[fd], FALSE, TRUE)]
    /\ UNCHANGED <<evalVars, srvVars, cliVars, link, backlog, c2s, s2c, c_shut, s_shut,
                   c_ready, c_full, peerVars>>

\* a wakeup of the server's epoll for fd that brings no byte
ServerSpuriousWake(fd) ==
    /\ fd \in s_conns
    /\ EPOLLIN \notin s_ready[fd]
    /\ WakeServer(fd)
    /\ UNCHANGED <<evalVars, srvVars, cliVars, link, backlog, c2s, s2c, c_shut, s_shut,
                   c_ready, s_full, c_full, peerVars>>

\* the handshake of the connect() of line 166 completes: the client socket
\* becomes writable and the server's listening socket readable
Connect(fd) ==
    /\ fd \in c_conns
    /\ link[fd] = "init"
    /\ link' = [link EXCEPT ![fd] = "up"]
    /\ backlog' = backlog \cup {fd}
    /\ c_full' = [c_full EXCEPT ![fd] = FALSE]
    /\ c_ready' = [c_ready EXCEPT ![fd] = epoll_arm(c_interest[fd], FALSE, TRUE)]
    /\ UNCHANGED <<evalVars, srvVars, cliVars, c2s, s2c, c_shut, s_shut,
                   s_ready, s_full, peerVars>>

\* the client socket's send buffer has room again
ClientWritable(fd) ==
    /\ fd \in c_conns
    /\ link[fd] = "up"
    /\ c_full[fd]
    /\ c_full' = [c_full EXCEPT ![fd] = FALSE]
    /\ c_ready' = [c_ready EXCEPT ![fd] = @ \cup epoll_arm(c_interest[fd], FALSE, TRUE)]
    /\ UNCHANGED <<evalVars, srvVars, cliVars, link, backlog, c2s, s2c, c_shut, s_shut,
                   s_ready, s_full, peerVars>>

\* the connection breaks: reads and writes on both ends fail from now on
NetReset(fd) ==
    /\ link[fd] = "up"
    /\ fd \in c_conns \/ fd \in s_conns \/ fd \in backlog
    /\ link' = [link EXCEPT ![fd] = "reset"]
    /\ WakeServer(fd)
    /\ WakeClient(fd)
    /\ UNCHANGED <<evalVars, srvVars, cliVars, backlog, c2s, s2c, c_shut, s_shut,
                   s_full, c_full, peerVars>>

\* ------------------------------------------------------------------------
\* A remote program facing the server: it connects, sends a stream of
\* request frames in runs of any length, and may close
\* ------------------------------------------------------------------------

RequestPayloads ==
    { <<"7">>, <<"2", "*", "3">>, <<"5", "/", "0">>, <<"+", "3">> }

RECURSIVE FrameStreams(_)
FrameStreams(n) ==
    IF n = 0 THEN {<<>>}
    ELSE {st \o Append(pl, SEP) : st \in FrameStreams(n - 1), pl \in RequestPayloads}

PeerStreams == UNION {FrameStreams(n) : n \in 1..MaxFrames}

PeerConnect(fd, stream) ==
    /\ fd = 1
    /\ link[fd] = "init"
    /\ link' = [link EXCEPT ![fd] = "up"]
    /\ backlog' = backlog \cup {fd}
    /\ p_stream' = [p_stream EXCEPT ![fd] = stream]
    /\ UNCHANGED <<evalVars, srvVars, cliVars, c2s, s2c, c_shut, s_shut, s_ready,
                   c_ready, s_full, c_full, p_sent>>

PeerSend(fd, n) ==
    /\ link[fd] = "up" /\ ~c_shut[fd] /\ ~s_shut[fd]
    /\ n \in 1..(Len(p_stream[fd]) - p_sent[fd])
    /\ c2s' = [c2s EXCEPT ![fd] = @ \o SubSeq(p_stream[fd], p_sent[fd] + 1, p_sent[fd] + n)]
    /\ p_sent' = [p_sent EXCEPT ![fd] = @ + n]
    /\ WakeServer(fd)
    /\ UNCHANGED <<evalVars, srvVars, cliVars, link, backlog, s2c, c_shut, s_shut,
                   c_ready, s_full, c_full, p_stream>>

PeerClose(fd) ==
    /\ link[fd] = "up" /\ ~c_shut[fd] /\ ~s_shut[fd]
    /\ c_shut' = [c_shut EXCEPT ![fd] = TRUE]
    /\ WakeServer(fd)
    /\ UNCHANGED <<evalVars, srvVars, cliVars, link, backlog, c2s, s2c, s_shut,
                   c_ready, s_full, c_full, peerVars>>

\* ------------------------------------------------------------------------
\* A remote program facing the client: it accepts the connection, sends a
\* stream of reply bytes in runs of any length, and may close
\* ------------------------------------------------------------------------

\* what the remote program may send to a connection that expects value v
ReplyStreams(v) ==
    { Append(to_string(v), SEP),
      Append(to_string(v + 1), SEP),
      Append(ERR, SEP),
      <<SEP>> }

\* line 166 completes: the connection is established
RemoteAccept(fd, stream) ==
    /\ fd \in c_conns
    /\ link[fd] = "init"
    /\ link' = [link EXCEPT ![fd] = "up"]
    /\ c_full' = [c_full EXCEPT ![fd] = FALSE]
    /\ c_ready' = [c_ready EXCEPT ![fd] = epoll_arm(c_interest[fd], FALSE, TRUE)]
    /\ p_stream' = [p_stream EXCEPT ![fd] = stream]
    /\ UNCHANGED <<evalVars, srvVars, cliVars, backlog, c2s, s2c, c_shut, s_shut,
                   s_ready, s_full, p_sent>>

RemoteSend(fd, n) ==
    /\ link[fd] = "up" /\ ~s_shut[fd] /\ ~c_shut[fd]
    /\ n \in 1..(Len(p_stream[fd]) - p_sent[fd])
    /\ s2c' = [s2c EXCEPT ![fd] = @ \o SubSeq(p_stream[fd], p_sent[fd] + 1, p_sent[fd] + n)]
    /\ p_sent' = [p_sent EXCEPT ![fd] = @ + n]
    /\ WakeClient(fd)
    /\ UNCHANGED <<evalVars, srvVars, cliVars, link, backlog, c2s, c_shut, s_shut,
                   s_ready, s_full, c_full, p_stream>>

RemoteClose(fd) ==
    /\ link[fd] = "up" /\ ~s_shut[fd] /\ ~c_shut[fd]
    /\ s_shut' = [s_shut EXCEPT ![fd] = TRUE]
    /\ WakeClient(fd)
    /\ UNCHANGED <<evalVars, srvVars, cliVars, link, backlog, c2s, s2c, c_shut,
                   s_ready, s_full, c_full, peerVars>>

\* ------------------------------------------------------------------------
\* Client and server over a reliable network
\* ------------------------------------------------------------------------

Init ==
    /\ EvalIdle /\ ServerStarted /\ NetIdle /\ PeerIdle
    /\ \/ \E n \in 1..MaxGenOperands : ClientStarted(n, 1)
       \/ ClientStarted(1, 2)

Next ==
    \/ \E fd \in Fds : Connect(fd)
    \/ \E fd \in Fds, evs \in SUBSET {EPOLLIN, EPOLLOUT} : ClientEvent(fd, evs)
    \/ \E fd \in Fds : ClientWritable(fd)
    \/ ServerAccept
    \/ \E fd \in Fds, evs \in SUBSET {EPOLLIN, EPOLLOUT} : ServerEvent(fd, evs)
    \/ \E fd \in Fds : ServerWritable(fd)

Spec == Init /\ [][Next]_vars

\* one connection
InitClient ==
    /\ EvalIdle /\ ServerStarted /\ NetIdle /\ PeerIdle
    /\ \E n \in 1..MaxGenOperands : ClientStarted(n, 1)

NextClient ==
    \/ \E fd \in Fds, evs \in SUBSET {EPOLLIN, EPOLLOUT} : ClientEvent(fd, evs)
    \/ \E fd \in Fds : ClientWritable(fd)
    \/ \E fd \in Fds : NetReset(fd)
    \/ \E fd \in Fds : \E stream \in ReplyStreams(c_expected[fd]) : RemoteAccept(fd, stream)
    \/ \E fd \in Fds, n \in 1..MaxRun : RemoteSend(fd, n)
    \/ \E fd \in Fds : RemoteClose(fd)

SpecClient == InitClient /\ [][NextClient]_vars

\* two connections of one operand each; the remote program sends each reply
\* stream in one run
InitClients ==
    /\ EvalIdle /\ ServerStarted /\ NetIdle /\ PeerIdle
    /\ ClientStarted(1, 2)

NextClients ==
    \/ \E fd \in Fds, evs \in SUBSET {EPOLLIN, EPOLLOUT} : ClientEvent(fd, evs)
    \/ \E fd \in Fds : ClientWritable(fd)
    \/ \E fd \in Fds : \E stream \in ReplyStreams(c_expected[fd]) : RemoteAccept(fd, stream)
    \/ \E fd \in Fds : RemoteSend(fd, Len(p_stream[fd]) - p_sent[fd])
    \/ \E fd \in Fds : NetReset(fd)

SpecClients == InitClients /\ [][NextClients]_vars

InitServer ==
    /\ EvalIdle /\ ServerStarted /\ ClientAbsent /\ NetIdle /\ PeerIdle

NextServer ==
    \/ ServerAccept
    \/ \E fd \in Fds, evs \in SUBSET {EPOLLIN, EPOLLOUT} : ServerEvent(fd, evs)
    \/ \E fd \in Fds : ServerWritable(fd)
    \/ \E fd \in Fds : ServerSpuriousWake(fd)
    \/ \E fd \in Fds : NetReset(fd)
    \/ \E fd \in Fds, stream \in PeerStreams : PeerConnect(fd, stream)
    \/ \E fd \in Fds, n \in 1..MaxRun : PeerSend(fd, n)
    \/ \E fd \in Fds : PeerClose(fd)

SpecServer == InitServer /\ [][NextServer]_vars


\* ========================================================================
\* Properties
\* ========================================================================

Evaluated == ev_srv # NotRun

ErrReply == Reply(Append(ERR, SEP))

\* s without its isspace characters
StripSpace(s) == SelectSeq(s, LAMBDA ch : ~IsSpace(ch))

\* The single-pass running-term accumulator over a well-formed expression:
\* * and / fold into term, + and - fold term into total.  div0 is the value
\* of a division by zero.
RECURSIVE accumulate_from(_, _, _, _, _, _)
accumulate_from(s, i, total, sign, term, div0) ==
    IF i > Len(s) THEN total + sign * term
    ELSE LET n == read_number(s, i + 1, 0)
         IN  CASE s[i] = "*" ->
                    accumulate_from(s, n.next, total, sign, term * n.val, div0)
               [] s[i] = "/" ->
                    accumulate_from(s, n.next, total, sign,
                                    IF n.val = 0 THEN div0 ELSE CDiv(term, n.val), div0)
               [] s[i] = "+" ->
                    accumulate_from(s, n.next, total + sign * term, 1, n.val, div0)
               [] OTHER ->
                    accumulate_from(s, n.next, total + sign * term, -1, n.val, div0)

accumulate(s, div0) ==
    LET n == read_number(s, 1, 0)
    IN  accumulate_from(s, n.next, 0, 1, n.val, div0)

\* the payloads of the complete frames of a byte stream, in order
RECURSIVE SplitFrames(_)
SplitFrames(bytes) ==
    IF \A i \in 1..Len(bytes) : bytes[i] # SEP THEN <<>>
    ELSE LET k == CHOOSE i \in 1..Len(bytes) :
                      bytes[i] = SEP /\ \A j \in 1..(i - 1) : bytes[j] # SEP
         IN  <<SubSeq(bytes, 1, k - 1)>> \o SplitFrames(SubSeq(bytes, k + 1, Len(bytes)))

\* the bytes after the last separator of a byte stream
RECURSIVE Remainder(_)
Remainder(bytes) ==
    IF bytes = <<>> \/ bytes[Len(bytes)] = SEP THEN <<>>
    ELSE Append(Remainder(SubSeq(bytes, 1, Len(bytes) - 1)), bytes[Len(bytes)])

\* the reply frame the protocol gives a well-formed request
ExpectedReply(expr) ==
    IF DividesByZero(expr) THEN Append(ERR, SEP)
    ELSE Append(to_string(accumulate(expr, 0)), SEP)

\* the bytes of connection fd the server has read
Consumed(fd) == SubSeq(p_stream[fd], 1, p_sent[fd] - Len(c2s[fd]))

\* every reply byte the server has queued for fd, sent or not
Outbound(fd) == s2c[fd] \o s_out_buf[fd]

\* C2: whatever runs a stream of request frames reaches the server in, and
\* whatever readable events bring no byte, the server has extracted exactly
\* the complete frames of the bytes it read, each once and unchanged, queued
\* exactly one reply per frame, and holds the bytes of the unfinished frame.
FrameReassembly ==
    \A fd \in s_conns :
        LET msgs == SplitFrames(Consumed(fd))
        IN  (\A i \in 1..Len(msgs) : WellFormed(msgs[i])) =>
                /\ s_log[fd] = [i \in 1..Len(msgs) |->
                                   [expr |-> msgs[i], reply |-> ExpectedReply(msgs[i])]]
                /\ s_in_buf[fd] = Remainder(Consumed(fd))
                /\ Outbound(fd) = Concat([i \in 1..Len(msgs) |-> ExpectedReply(msgs[i])])

\* the frame "2*3 " arrived in two runs or more, with a readable event that
\* brought nothing, and was extracted and replied to once
FrameReassemblyWitness ==
    \E fd \in s_conns :
        /\ p_stream[fd] = <<"2", "*", "3", " ">>
        /\ Consumed(fd) = p_stream[fd]
        /\ s_data_reads[fd] >= 2
        /\ s_empty_read[fd]
        /\ s_log[fd] = <<[expr |-> <<"2", "*", "3">>, reply |-> <<"6", " ">>]>>
        /\ s_in_buf[fd] = <<>>
        /\ Outbound(fd) = <<"6", " ">>

\* C3: a readable event that completes k >= 2 request frames makes the server
\* extract all k in arrival order in that one handling and append their k
\* reply frames to out_buf in the same order.
PipelinedFrames ==
    [][\A fd \in Fds :
          LET msgs == SplitFrames(s_in_buf[fd] \o c2s[fd])
          IN  ( /\ \E evs \in SUBSET {EPOLLIN, EPOLLOUT} :
                       EPOLLIN \in evs /\ ServerEvent(fd, evs)
                /\ server_read(fd).end = "again"
                /\ Len(msgs) >= 2
                /\ \A i \in 1..Len(msgs) : WellFormed(msgs[i]) )
              => /\ fd \in s_conns'
                 /\ s_log'[fd] = s_log[fd] \o
                        [i \in 1..Len(msgs) |->
                            [expr |-> msgs[i], reply |-> ExpectedReply(msgs[i])]]
                 /\ s2c'[fd] \o s_out_buf'[fd] = Outbound(fd) \o
                        Concat([i \in 1..Len(msgs) |-> ExpectedReply(msgs[i])])
                 /\ s_in_buf'[fd] = Remainder(s_in_buf[fd] \o c2s[fd])
      ]_vars

\* "5/0 7 " arrived in one run: both frames logged and replied to in order
PipelinedFramesWitness ==
    \E fd \in s_conns :
        /\ p_stream[fd] = <<"5", "/", "0", " ", "7", " ">>
        /\ s_data_reads[fd] = 1
        /\ s_log[fd] = << [expr |-> <<"5", "/", "0">>, reply |-> <<"E", "R", "R", " ">>],
                          [expr |-> <<"7">>, reply |-> <<"7", " ">>] >>
        /\ Outbound(fd) = <<"E", "R", "R", " ", "7", " ">>

\* C4: for every well-formed expression with a division whose divisor is 0,
\* the server's evaluate fails and the reply frame is exactly "ERR ", while the
\* client's evaluate returns an integer, the value the expression has when
\* each such division yields 0.
DivisionByZeroDivergence ==
    (Evaluated /\ WellFormed(ev_in) /\ DividesByZero(ev_in)) =>
        /\ ev_srv = Throw
        /\ ev_reply = ErrReply
        /\ ev_cli = Ok(accumulate(ev_in, 0))

\* "5/0" was evaluated: the server failed, the client returned 0
DivisionByZeroWitness ==
    /\ Evaluated
    /\ ev_in = <<"5", "/", "0">>
    /\ ev_srv = Throw
    /\ ev_reply = ErrReply
    /\ ev_cli = Ok(0)

\* C5: for every payload that is empty or does not match digits (op digits)*
\* (whitespace aside), the server's evaluate fails without reading or popping
\* an empty value stack, and the reply queued is exactly "ERR ".
MalformedPayloadGetsErr ==
    (Evaluated /\ ~WellFormed(StripSpace(ev_in))) =>
        /\ ev_srv = Throw
        /\ ev_reply = ErrReply

\* C6: for every well-formed expression without a division by zero, the
\* stack-based evaluate of the server and of the client both return the value
\* of the running-term accumulator; 2+3*4 = 14, 10-2*3+4 = 8 and 8/3 = 2.
EvaluatorsMatchAccumulator ==
    /\ (Evaluated /\ WellFormed(ev_in) /\ ~DividesByZero(ev_in)) =>
          /\ ev_srv = Ok(accumulate(ev_in, 0))
          /\ ev_cli = ev_srv
    /\ (Evaluated /\ ev_in = <<"2", "+", "3", "*", "4">>) => ev_srv = Ok(14)
    /\ (Evaluated /\ ev_in = <<"1", "0", "-", "2", "*", "3", "+", "4">>) => ev_srv = Ok(8)
    /\ (Evaluated /\ ev_in = <<"8", "/", "3">>) => ev_srv = Ok(2)

\* "10-2*3+4" was evaluated to 8 by both evaluators
EvaluatorsMatchWitness ==
    /\ Evaluated
    /\ ev_in = <<"1", "0", "-", "2", "*", "3", "+", "4">>
    /\ ev_srv = Ok(8)
    /\ ev_cli = Ok(8)

\* C1: whatever expression the client generated, however its frame was
\* fragmented and however the sockets took and delivered the bytes, the client
\* never reports a mismatch and never dies: a reply it validates is the reply
\* the server printed for exactly the client's expression, and carries the
\* client's expected value.
EndToEndMatch ==
    /\ ~c_aborted
    /\ ~s_crashed
    /\ \A fd \in Fds :
          c_outcome[fd] # "none" =>
              /\ c_outcome[fd] = "match"
              /\ s_log[fd] = <<[expr |-> c_expr[fd],
                                reply |-> Append(to_string(c_expected[fd]), SEP)]>>

\* "2-10" was sent in three fragments or more, reached the server in two runs
\* or more, and the reply "-8 " was validated as a match
EndToEndWitness ==
    \E fd \in Fds :
        /\ c_expr[fd] = <<"2", "-", "1", "0">>
        /\ Len(c_fragments[fd]) >= 3
        /\ s_data_reads[fd] >= 2
        /\ s_log[fd] = <<[expr |-> c_expr[fd], reply |-> <<"-", "8", " ">>]>>
        /\ c_expected[fd] = -8
        /\ c_outcome[fd] = "match"
        /\ fd \notin c_conns

\* the reply frame, if any, that a readable event of client socket fd completes
ReplyDue(fd) == SplitFrames(c_in_buf[fd] \o s2c[fd])

\* a readable event of client socket fd is handled in this step
ClientReads(fd) ==
    \E evs \in SUBSET {EPOLLIN, EPOLLOUT} : EPOLLIN \in evs /\ ClientEvent(fd, evs)

\* a readable event of server socket fd is handled in this step
ServerReads(fd) ==
    \E evs \in SUBSET {EPOLLIN, EPOLLOUT} : EPOLLIN \in evs /\ ServerEvent(fd, evs)

\* a writable event of server socket fd is handled in this step
ServerWrites(fd) ==
    \E evs \in SUBSET {EPOLLIN, EPOLLOUT} : EPOLLOUT \in evs /\ ServerEvent(fd, evs)

\* a writable event of client socket fd with fragments left is handled in this step
ClientWrites(fd) ==
    /\ c_frag_idx[fd] < Len(c_fragments[fd])
    /\ \E evs \in SUBSET {EPOLLIN, EPOLLOUT} : EPOLLOUT \in evs /\ ClientEvent(fd, evs)

\* C7: the client's loop terminates: once nothing can happen any more (no
\* event is queued and neither the kernel nor the remote program has a step
\* left), no connection remains.  (A client that died is left aside here.)
ClientLoopTerminates ==
    (~c_aborted /\ ~ENABLED NextClient) => active = 0

\* C8: a complete reply frame whose payload is an integer makes the client
\* report a mismatch if it differs from the expected value and a match
\* otherwise, and either way close and erase that connection and decrement
\* active; every other connection keeps its table entry, its state and its
\* queued events, and the client lives on.
MismatchClosesConnection ==
    [][\A fd \in Fds :
          LET r == stol(ReplyDue(fd)[1])
          IN  ( /\ ClientReads(fd)
                /\ link[fd] # "reset"
                /\ ReplyDue(fd) # <<>>
                /\ r.st = "ok" )
              => /\ c_outcome'[fd] = IF r.val # c_expected[fd] THEN "mismatch" ELSE "match"
                 /\ c_conns' = c_conns \ {fd}
                 /\ active' = active - 1
                 /\ active' = Cardinality(c_conns')
                 /\ c_shut'[fd]
                 /\ ~c_aborted'
                 /\ \A g \in Fds \ {fd} :
                       /\ c_ready'[g] = c_ready[g]
                       /\ c_interest'[g] = c_interest[g]
                       /\ c_in_buf'[g] = c_in_buf[g]
                       /\ c_outcome'[g] = c_outcome[g]
                       /\ c_frag_idx'[g] = c_frag_idx[g]
                       /\ c_frag_offset'[g] = c_frag_offset[g]
      ]_vars

\* one connection was closed on a mismatch while the other, still in the
\* table, has a readable event queued
MismatchWitness ==
    \E fd \in Fds, g \in Fds :
        /\ c_outcome[fd] = "mismatch"
        /\ c_in_buf[fd] = Append(to_string(c_expected[fd] + 1), SEP)
        /\ fd \notin c_conns
        /\ g \in c_conns
        /\ active = 1
        /\ c_outcome[g] = "none"
        /\ EPOLLIN \in c_ready[g]
        /\ ~c_aborted

\* C9: a complete reply frame, whatever its payload, makes the client close
\* and erase that connection and decrement active, and the client lives on.
ReplyFrameClosesConnection ==
    [][\A fd \in Fds :
          ( /\ ClientReads(fd)
            /\ link[fd] # "reset"
            /\ ReplyDue(fd) # <<>> )
          => /\ ~c_aborted'
             /\ c_conns' = c_conns \ {fd}
             /\ active' = active - 1
      ]_vars

\* C10: on both endpoints, a read that returns end-of-stream and a read or
\* write that returns an error other than would-block close the connection
\* and erase it from the table in the handling of that event.
FatalIoClosesConnection ==
    [][\A fd \in Fds :
          /\ (ClientReads(fd) /\ client_recv(fd).end \in {"eof", "err"})
                => fd \notin c_conns'
          /\ (ClientWrites(fd) /\ link[fd] = "reset") => fd \notin c_conns'
          /\ (ServerReads(fd) /\ server_read(fd).end \in {"eof", "err"})
                => fd \notin s_conns'
          /\ (ServerWrites(fd) /\ s_out_buf'[fd] # <<>> /\ link[fd] = "reset")
                => fd \notin s_conns'
      ]_vars

\* the request frames completed by the bytes a readable event of server socket
\* fd reads
RequestsDue(fd) == SplitFrames(s_in_buf[fd] \o server_read(fd).data)

\* C11: every complete frame the server has read into in_buf is delivered to
\* the evaluator and gets a reply queued (and printed), also when the drain
\* that read it ended because the peer closed its sending side.
ReadFramesAreAnswered ==
    [][\A fd \in Fds :
          ( /\ ServerReads(fd)
            /\ server_read(fd).end \in {"again", "eof"}
            /\ RequestsDue(fd) # <<>>
            /\ \A i \in 1..Len(RequestsDue(fd)) : WellFormed(RequestsDue(fd)[i]) )
          => s_log'[fd] = s_log[fd] \o
                 [i \in 1..Len(RequestsDue(fd)) |->
                     [expr |-> RequestsDue(fd)[i],
                      reply |-> ExpectedReply(RequestsDue(fd)[i])]]
      ]_vars

\* out_buf of an open connection holds bytes only while writability is
\* watched and a writable event is queued, or will be when the full send
\* buffer drains
NoStall(fd) ==
    (fd \in s_conns /\ s_out_buf[fd] # <<>>) =>
        /\ EPOLLOUT \in s_interest[fd]
        /\ EPOLLOUT \in s_ready[fd] \/ s_full[fd]

\* C12: a reply the server queues does not stay in out_buf forever while the
\* connection is open: after every step NoStall holds, also when the reply was
\* queued by a readable event without a writable one, and every writable
\* event handled while the socket takes bytes moves at least one byte of a
\* non-empty out_buf to the transport, in order.
RepliesAreSent ==
    [][\A fd \in Fds :
          /\ NoStall(fd)'
          /\ (ServerWrites(fd) /\ fd \in s_conns' /\ s_out_buf[fd] # <<>> /\ ~s_full[fd])
                => Len(s2c'[fd]) > Len(s2c[fd])
          /\ (fd \in s_conns /\ fd \in s_conns')
                => SubSeq(s2c'[fd] \o s_out_buf'[fd], 1, Len(Outbound(fd))) = Outbound(fd)
      ]_vars

\* two replies were queued and all their bytes have been written; the first
\* was queued while only readability was watched
RepliesAreSentWitness ==
    \E fd \in s_conns :
        /\ Len(s_log[fd]) = 2
        /\ s_out_buf[fd] = <<>>
        /\ s2c[fd] = s_log[fd][1].reply \o s_log[fd][2].reply
        /\ s_interest[fd] = {EPOLLIN}

\* bytes of connection fd's fragments the client's socket has not taken yet
Unsent(fd) == unsent(c_fragments[fd], c_frag_idx[fd], c_frag_offset[fd])

\* C13: a connection that is open watches writability exactly while it has
\* unsent outbound bytes: on the server while out_buf is non-empty, on the
\* client while a fragment byte is still to be sent.
WriteInterestIffUnsent ==
    /\ \A fd \in s_conns : EPOLLOUT \in s_interest[fd] <=> s_out_buf[fd] # <<>>
    /\ ~c_aborted =>
          \A fd \in c_conns : EPOLLOUT \in c_interest[fd] <=> Unsent(fd) > 0

\* the client has sent its last fragment and dropped EPOLLOUT; the server has
\* written a part of the reply and still watches EPOLLOUT for the rest
WriteInterestWitness ==
    \E fd \in Fds :
        /\ fd \in c_conns /\ fd \in s_conns
        /\ Unsent(fd) = 0
        /\ c_interest[fd] = {EPOLLIN}
        /\ s_log[fd] # <<>>
        /\ s_out_buf[fd] # <<>>
        /\ Len(s_out_buf[fd]) < Len(s_log[fd][1].reply)
        /\ s_interest[fd] = {EPOLLIN, EPOLLOUT}

\* the bytes of connection fd's fragments up to the send cursor
SentByCursor(fd) ==
    Concat(SubSeq(c_fragments[fd], 1, c_frag_idx[fd])) \o
        (IF c_frag_idx[fd] < Len(c_fragments[fd])
         THEN SubSeq(c_fragments[fd][c_frag_idx[fd] + 1], 1, c_frag_offset[fd])
         ELSE <<>>)

\* C14: for every client connection in the table, the bytes its socket has
\* accepted are exactly the fragments before frag_idx followed by the first
\* frag_offset bytes of the current one, hence a prefix of expr + ' ';
\* frag_idx is at most the fragment count and frag_offset is below the current
\* fragment's length (0 once all are sent).
SendCursorTracksBytes ==
    \A fd \in c_conns :
        LET msg == Append(c_expr[fd], SEP)
        IN  /\ c2s[fd] = SentByCursor(fd)
            /\ Len(c2s[fd]) <= Len(msg)
            /\ c2s[fd] = SubSeq(msg, 1, Len(c2s[fd]))
            /\ c_frag_idx[fd] \in 0..Len(c_fragments[fd])
            /\ c_frag_offset[fd] >= 0
            /\ IF c_frag_idx[fd] < Len(c_fragments[fd])
               THEN c_frag_offset[fd] < Len(c_fragments[fd][c_frag_idx[fd] + 1])
               ELSE c_frag_offset[fd] = 0

\* a would-block result stopped the send loop inside the second fragment or a
\* later one
SendCursorWitness ==
    \E fd \in c_conns :
        /\ c_frag_idx[fd] >= 1
        /\ c_frag_offset[fd] >= 1
        /\ c_full[fd]
        /\ c2s[fd] = SentByCursor(fd)
        /\ Len(c2s[fd]) < Len(c_expr[fd]) + 1

\* the write loop of server socket fd runs in this step: a writable event is
\* handled and the read loop, if it ran, ended with would-block
ServerWriteLoopRuns(fd) ==
    \E evs \in SUBSET {EPOLLIN, EPOLLOUT} :
        /\ EPOLLOUT \in evs
        /\ ServerEvent(fd, evs)
        /\ EPOLLIN \in evs => server_read(fd).end = "again"

\* C15: a would-block result only ends the drain loop it occurs in.  A server
\* read loop ended by it keeps the connection and every byte read (none read:
\* in_buf unchanged); a server write loop ended by it keeps the connection and
\* every unsent byte (none written: nothing sent); a client send loop ended by
\* it leaves the cursor exactly behind the bytes taken (none taken: cursor
\* unchanged); a client recv loop ended by it keeps every byte received, and
\* the connection unless a reply frame is complete.
WouldBlockOnlyEndsDrain ==
    [][\A fd \in Fds :
          /\ (ServerReads(fd) /\ server_read(fd).end = "again")
                => /\ fd \in s_conns'
                   /\ s_in_buf'[fd] = Remainder(s_in_buf[fd] \o c2s[fd])
                   /\ c2s[fd] = <<>> => s_in_buf'[fd] = s_in_buf[fd]
          /\ (ServerWriteLoopRuns(fd) /\ link[fd] = "up" /\ s_full'[fd])
                => /\ fd \in s_conns'
                   /\ SubSeq(s2c'[fd] \o s_out_buf'[fd], 1, Len(Outbound(fd))) = Outbound(fd)
                   /\ s_full[fd] => s2c'[fd] = s2c[fd]
          /\ (ClientWrites(fd) /\ link[fd] = "up" /\ c_full'[fd])
                => LET taken == SubSeq(c2s'[fd], Len(c2s[fd]) + 1, Len(c2s'[fd]))
                   IN  /\ c2s'[fd] = c2s[fd] \o taken
                       /\ SentByCursor(fd)' = SentByCursor(fd) \o taken
                       /\ c_full[fd] => /\ taken = <<>>
                                        /\ c_frag_idx'[fd] = c_frag_idx[fd]
                                        /\ c_frag_offset'[fd] = c_frag_offset[fd]
                       /\ fd \in c_conns' \/ ReplyDue(fd) # <<>>
          /\ (ClientReads(fd) /\ link[fd] = "up" /\ client_recv(fd).end = "again")
                => /\ c_in_buf'[fd] = c_in_buf[fd] \o s2c[fd]
                   /\ fd \in c_conns' \/ ReplyDue(fd) # <<>>
      ]_vars

\* a client send loop was stopped inside a fragment and a server write loop
\* inside a reply; both connections are open with the rest still to be sent
WouldBlockWitness ==
    \E fd \in Fds, g \in Fds :
        /\ g \in c_conns /\ link[g] = "up" /\ c_full[g]
        /\ c_frag_offset[g] >= 1
        /\ c2s[g] \o s_in_buf[g] = SentByCursor(g)
        /\ fd \in s_conns /\ s_full[fd]
        /\ s_log[fd] # <<>>
        /\ s_out_buf[fd] # <<>>
        /\ Len(s_out_buf[fd]) < Len(s_log[fd][1].reply)

\* C16: a client connection leaves the table in one way only and for good: by
\* the send-error path or by the validation of its reply, never both, with
\* active decremented by one in the same step; a removed connection never
\* comes back, and active is the size of the table after every step.
RemovedOnce ==
    [][/\ active' = Cardinality(c_conns')
       /\ c_conns' \subseteq c_conns
       /\ active' = active - Cardinality(c_conns \ c_conns')
       /\ \A fd \in c_conns \ c_conns' :
             LET validated == c_outcome[fd] = "none" /\ c_outcome'[fd] # "none"
                 send_error == ClientWrites(fd) /\ link[fd] = "reset"
             IN  /\ c_conns \ c_conns' = {fd}
                 /\ validated \/ send_error
                 /\ ~(validated /\ send_error)
                 /\ c_shut'[fd] /\ ~c_shut[fd]
       /\ \A fd \in Fds \ c_conns : /\ c_outcome'[fd] = c_outcome[fd]
                                    /\ c_shut'[fd] = c_shut[fd]
      ]_vars

\* one connection was removed by the send-error path and the other after its
\* reply was validated
RemovedOnceWitness ==
    \E fd \in Fds, g \in Fds :
        /\ c_conns = {}
        /\ active = 0
        /\ c_outcome[fd] = "none" /\ link[fd] = "reset" /\ c_shut[fd]
        /\ c_frag_idx[fd] < Len(c_fragments[fd])
        /\ c_outcome[g] = "match" /\ c_shut[g]

\* the reply frame the protocol gives any request: ERR for a malformed one
ProtocolReply(expr) ==
    IF WellFormed(expr) THEN ExpectedReply(expr) ELSE Append(ERR, SEP)

\* C17: an evaluation failure (malformed expression or division by zero)
\* never closes or removes the server connection: every frame of a drain that
\* ended with would-block is answered, a failing one with ERR, later ones
\* normally, and the connection stays in the table; a connection leaves the
\* table only on end-of-stream or a fatal read or write error.
EvalFailureKeepsConnection ==
    [][\A fd \in Fds :
          /\ (ServerReads(fd) /\ link[fd] = "up" /\ server_read(fd).end = "again")
                => /\ fd \in s_conns'
                   /\ s_log'[fd] = s_log[fd] \o
                          [i \in 1..Len(RequestsDue(fd)) |->
                              [expr |-> RequestsDue(fd)[i],
                               reply |-> ProtocolReply(RequestsDue(fd)[i])]]
          /\ (fd \in s_conns /\ fd \notin s_conns')
                => \/ ServerReads(fd) /\ server_read(fd).end \in {"eof", "err"}
                   \/ ServerWrites(fd) /\ link[fd] = "reset"
      ]_vars

\* the bytes of fragments from the k-th on
FragmentsFrom(fragments, k) == Concat(SubSeq(fragments, k, Len(fragments)))

\* fragments is a split of expr followed by exactly one space into non-empty
\* chunks, each no longer than what was unpartitioned when it was cut
IsFragmentation(fragments, expr) ==
    /\ \A i \in 1..Len(expr) : expr[i] # SEP
    /\ Concat(fragments) = Append(expr, SEP)
    /\ \A k \in 1..Len(fragments) :
          /\ Len(fragments[k]) >= 1
          /\ Len(fragments[k]) <= Len(FragmentsFrom(fragments, k))

\* C18: the fragment list of every connection the client initiated is a split
\* of expr + ' ' into non-empty chunks, each of length between 1 and the bytes
\* still unpartitioned, and no step of the event loop changes the list.
FragmentsFixed ==
    /\ [](\A fd \in Fds :
             c_expr[fd] # <<>> => IsFragmentation(c_fragments[fd], c_expr[fd]))
    /\ [][c_fragments' = c_fragments /\ c_expr' = c_expr]_vars

\* a message cut into three chunks or more, the send loop stopped by
\* would-block after the first chunk, the list as it was built
FragmentsFixedWitness ==
    \E fd \in c_conns :
        /\ Len(c_fragments[fd]) >= 3
        /\ c_frag_idx[fd] >= 1
        /\ c_frag_idx[fd] < Len(c_fragments[fd])
        /\ c_full[fd]
        /\ IsFragmentation(c_fragments[fd], c_expr[fd])

\* C19: the inbound buffer of a connection in the server's table holds no
\* separator: it is exactly the bytes read after the last separator, those of
\* the frame not yet terminated.
NoSeparatorLeft ==
    \A fd \in s_conns :
        /\ \A i \in 1..Len(s_in_buf[fd]) : s_in_buf[fd][i] # SEP
        /\ s_in_buf[fd] = Remainder(Consumed(fd))

\* a frame was answered and the first bytes of the next one wait in in_buf
NoSeparatorLeftWitness ==
    \E fd \in s_conns :
        /\ Len(s_log[fd]) >= 1
        /\ s_in_buf[fd] # <<>>
        /\ s_in_buf[fd] = Remainder(Consumed(fd))
        /\ Len(SplitFrames(Consumed(fd))) = Len(s_log[fd])

\* the handles accept has returned to the server and the server has not closed
OpenHandles ==
    {fd \in Fds : link[fd] # "init" /\ fd \notin backlog /\ ~s_shut[fd]}

\* C20: the key set of the server's table is the set of accepted handles not
\* yet closed: close and erase happen in the same step, and no event is
\* dispatched that makes conns[fd] insert a key for a handle that was not
\* accepted or is closed.
TableIsOpenHandles ==
    /\ s_conns = OpenHandles
    /\ \A fd \in Fds \ s_conns : s_ready[fd] = {} /\ s_interest[fd] = {}

\* one connection was served, closed and erased while the other is in the
\* table with its request half read
TableIsOpenHandlesWitness ==
    \E fd \in Fds, g \in Fds :
        /\ s_log[fd] # <<>>
        /\ s_shut[fd]
        /\ fd \notin s_conns
        /\ s_conns = {g}
        /\ s_in_buf[g] # <<>>
        /\ OpenHandles = {g}

====
